---- MODULE Spec2Model ----
(***************************************************************************)
(* Model of the marketplace storefront components:                         *)
(*   - FeaturedSection: the circular slide controller (currentSlide), the  *)
(*     Carousel options it requests, the indicator strip and the card      *)
(*     click that pushes a route;                                          *)
(*   - AgentTableRow: the runs and rating cells of one table row.          *)
(***************************************************************************)
EXTENDS Integers, Sequences, FiniteSets, TLC

\* ---- bounds of the model ----
MaxN == 3            \* largest featuredAgents.length explored
MaxPending == 3      \* most state updates queued before a re-render
MaxClicks == 2       \* most card clicks recorded
MaxDrift == 5        \* cap on |index| (only binds when the collection is empty)
MaxRatingQ == 20     \* ratings explored are q/4 for q in 0..MaxRatingQ (0.0 .. 5.0)

\* ---- program constants ----
Duration == 500
EmDash == "U+2014"   \* the literal em-dash placeholder of AgentTableRow

VARIABLES
  featuredAgents,  \* prop: the ordered slide collection
  currentSlide,    \* useState(0): the committed Current Index
  updateQueue,     \* functional updates passed to setCurrentSlide, not yet rendered
  carouselOpts,    \* the opts object last handed to <Carousel>
  indicators,      \* the indicator strip last rendered (TRUE = elongated mark)
  routerPushes,    \* the paths handed to router.push, in order
  cardClicks,      \* the cards selected so far (index into featuredAgents), in order
  hist,            \* the last two navigation operations with the index before/after
  rowProps,        \* AgentTableRow props (runs, rating)
  rowCells         \* AgentTableRow rendered cells

vars == <<featuredAgents, currentSlide, updateQueue, carouselOpts, indicators,
          routerPushes, cardClicks, hist, rowProps, rowCells>>

sectionVars == <<featuredAgents, currentSlide, updateQueue, carouselOpts,
                 indicators, routerPushes, cardClicks, hist>>

rowVars == <<rowProps, rowCells>>

\* ---------------------------------------------------------------------------
\* FeaturedSection
\* ---------------------------------------------------------------------------

Creators == <<"AI Solutions Inc.", "WordCraft AI", "DataTech">>

\* The k-th Featured Agent record (the fields the controller reads).
FeaturedAgent(k) ==
  [creator |-> Creators[((k - 1) % 3) + 1], slug |-> "agent-" \o ToString(k)]

Collection(n) == [k \in 1..n |-> FeaturedAgent(k)]

\* (prev) => prev === 0 ? featuredAgents.length - 1 : prev - 1
PrevNoWrap(prev, len) == prev - 1
PrevWrapToLen(prev, len) == IF prev = 0 THEN len ELSE prev - 1
PrevUpdater(prev, len) == IF prev = 0 THEN len - 1 ELSE prev - 1

\* (prev) => prev === featuredAgents.length - 1 ? 0 : prev + 1
NextNoWrap(prev, len) == prev + 1
NextWrapAtLen(prev, len) == IF prev = len THEN 0 ELSE prev + 1
NextUpdater(prev, len) == IF prev = len - 1 THEN 0 ELSE prev + 1

ApplyUpdate(op, prev, len) ==
  IF op = "next" THEN NextUpdater(prev, len) ELSE PrevUpdater(prev, len)

\* Functional updates are applied in order, each to the result of the one before.
RECURSIVE FoldUpdates(_, _, _)
FoldUpdates(q, base, len) ==
  IF q = <<>> THEN base
  ELSE FoldUpdates(Tail(q), ApplyUpdate(Head(q), base, len), len)

\* Every update computed from the index captured at render time: the last one wins.
ProcessStale(q, base, len) ==
  IF q = <<>> THEN base ELSE ApplyUpdate(q[Len(q)], base, len)
ProcessQueue(q, base, len) == FoldUpdates(q, base, len)

\* The index once every queued update is applied.
Pending(q) == ProcessQueue(q, currentSlide, Len(featuredAgents))
PendingSlide == Pending(updateQueue)

\* opts={{ loop: true, startIndex: currentSlide, duration: 500 }}
OptsStartZero(slide) == [loop |-> TRUE, startIndex |-> 0, duration |-> Duration]
CarouselOpts(slide) == [loop |-> TRUE, startIndex |-> slide, duration |-> Duration]

\* featuredAgents.map((_, index) => currentSlide === index ? elongated : dot)
StripOneBased(slide, len) == [j \in 1..len |-> slide = j]
IndicatorStrip(slide, len) == [j \in 1..len |-> slide = j - 1]

\* `/store/agent/${creator}/${slug}`
PathSwapped(creator, slug) == "/store/agent/" \o slug \o "/" \o creator
CardPath(creator, slug) == "/store/agent/" \o creator \o "/" \o slug

Record(op, before, after) ==
  LET e == [op |-> op, before |-> before, after |-> after]
  IN IF Len(hist) < 2 THEN Append(hist, e) ELSE <<hist[2], e>>

InitSection ==
  /\ featuredAgents \in {Collection(n) : n \in 0..MaxN}
  /\ currentSlide = 0
  /\ updateQueue = <<>>
  /\ carouselOpts = CarouselOpts(0)
  /\ indicators = IndicatorStrip(0, Len(featuredAgents))
  /\ routerPushes = <<>>
  /\ cardClicks = <<>>
  /\ hist = <<>>

handlePrevSlide ==
  /\ Len(updateQueue) < MaxPending
  /\ PendingSlide > -MaxDrift
  /\ updateQueue' = Append(updateQueue, "prev")
  /\ hist' = Record("prev", PendingSlide, Pending(updateQueue'))
  /\ UNCHANGED <<featuredAgents, currentSlide, carouselOpts, indicators,
                 routerPushes, cardClicks, rowVars>>

handleNextSlide ==
  /\ Len(updateQueue) < MaxPending
  /\ PendingSlide < MaxDrift
  /\ updateQueue' = Append(updateQueue, "next")
  /\ hist' = Record("next", PendingSlide, Pending(updateQueue'))
  /\ UNCHANGED <<featuredAgents, currentSlide, carouselOpts, indicators,
                 routerPushes, cardClicks, rowVars>>

\* The re-render that follows the queued updates: the state is recomputed and
\* the Carousel opts and the indicator strip are derived from it.
Render ==
  /\ updateQueue # <<>>
  /\ currentSlide' = PendingSlide
  /\ updateQueue' = <<>>
  /\ carouselOpts' = CarouselOpts(currentSlide')
  /\ indicators' = IndicatorStrip(currentSlide', Len(featuredAgents))
  /\ UNCHANGED <<featuredAgents, routerPushes, cardClicks, hist, rowVars>>

\* onClick={() => handleCardClick(agent.creator, agent.slug)} of card k
handleCardClick(k) ==
  /\ Len(cardClicks) < MaxClicks
  /\ cardClicks' = Append(cardClicks, k)
  /\ routerPushes' = Append(routerPushes,
                            CardPath(featuredAgents[k].creator, featuredAgents[k].slug))
  /\ UNCHANGED <<featuredAgents, currentSlide, updateQueue, carouselOpts,
                 indicators, hist, rowVars>>

CardClick == \E k \in 1..Len(featuredAgents) : handleCardClick(k)

\* ---------------------------------------------------------------------------
\* AgentTableRow
\* ---------------------------------------------------------------------------

Undefined == [defined |-> FALSE, val |-> 0]
Some(v) == [defined |-> TRUE, val |-> v]

RunsValues == {0, 7, 999, 1000, 75000, 1234567}

Pad3(n) ==
  IF n < 10 THEN "00" \o ToString(n)
  ELSE IF n < 100 THEN "0" \o ToString(n) ELSE ToString(n)

\* Number.prototype.toLocaleString under the en-US convention
RECURSIVE toLocaleString(_)
toLocaleString(n) ==
  IF n < 1000 THEN ToString(n)
  ELSE toLocaleString(n \div 1000) \o "," \o Pad3(n % 1000)

\* Number.prototype.toFixed(1) of the rating q/4: the nearest tenth, the larger
\* one on a tie (quarters are exact binary fractions).
toFixed1(q) ==
  LET n == (5 * q + 1) \div 2
  IN ToString(n \div 10) \o "." \o ToString(n % 10)

\* {runs?.toLocaleString() ?? '-'}
RunsCell(runs) == IF runs.defined THEN toLocaleString(runs.val) ELSE EmDash

\* {rating ? <span>{rating.toFixed(1)}</span><IconStarFilled/> : <span>-</span>}
Truthy(rating) == rating.defined /\ rating.val # 0
RatingCell(rating) ==
  IF Truthy(rating) THEN [text |-> toFixed1(rating.val), star |-> TRUE]
  ELSE [text |-> EmDash, star |-> FALSE]

NotRendered == [mounted |-> FALSE, runs |-> "", rating |-> [text |-> "", star |-> FALSE]]

InitRow ==
  /\ rowProps \in [runs : {Undefined} \cup {Some(v) : v \in RunsValues},
                   rating : {Undefined} \cup {Some(q) : q \in 0..MaxRatingQ}]
  /\ rowCells = NotRendered

AgentTableRow ==
  /\ ~rowCells.mounted
  /\ rowCells' = [mounted |-> TRUE, runs |-> RunsCell(rowProps.runs),
                  rating |-> RatingCell(rowProps.rating)]
  /\ UNCHANGED <<rowProps, sectionVars>>

\* ---------------------------------------------------------------------------
\* Specifications
\* ---------------------------------------------------------------------------

Init ==
  /\ InitSection
  /\ rowProps = [runs |-> Undefined, rating |-> Undefined]
  /\ rowCells = NotRendered

Next == handlePrevSlide \/ handleNextSlide \/ Render \/ CardClick

Spec == Init /\ [][Next]_vars

RowInit ==
  /\ InitRow
  /\ featuredAgents = Collection(0)
  /\ currentSlide = 0
  /\ updateQueue = <<>>
  /\ carouselOpts = CarouselOpts(0)
  /\ indicators = IndicatorStrip(0, 0)
  /\ routerPushes = <<>>
  /\ cardClicks = <<>>
  /\ hist = <<>>

RowNext == AgentTableRow

SpecRow == RowInit /\ [][RowNext]_vars
\* ---------------------------------------------------------------------------
\* Properties
\* ---------------------------------------------------------------------------

N == Len(featuredAgents)

LastOp == hist[Len(hist)]

Count(q, op) == Cardinality({j \in 1..Len(q) : q[j] = op})

\* C1: for N >= 1 the Current Index, committed or pending, always satisfies
\* 0 <= index < N in every state reachable from mount by Advance and Retreat.
C1_IndexInRange ==
  N >= 1 => /\ 0 <= currentSlide /\ currentSlide < N
            /\ 0 <= PendingSlide /\ PendingSlide < N

C1_Witness ==
  /\ N = 3 /\ Len(hist) = 2 /\ currentSlide = 2
  /\ LastOp.op = "prev" /\ LastOp.before = 0

\* C2: for N = 0 Advance and Retreat are no-ops (the index keeps its mount
\* value 0) and no indicator mark is rendered.
C2_EmptyIsInert ==
  N = 0 => /\ currentSlide = 0
           /\ PendingSlide = 0
           /\ indicators = <<>>

\* C3: for N >= 1, Advance takes the index i in [0, N) to (i + 1) mod N.
C3_AdvanceIsSuccessor ==
  [][(N >= 1 /\ updateQueue' = Append(updateQueue, "next"))
       => /\ 0 <= PendingSlide /\ PendingSlide < N
          /\ PendingSlide' = (PendingSlide + 1) % N]_vars

C3_Witness ==
  /\ N = 3 /\ hist # <<>>
  /\ LastOp.op = "next" /\ LastOp.before = 2 /\ LastOp.after = 0
  /\ PendingSlide = 0

\* C4: for N >= 1, Retreat takes the index i in [0, N) to (i - 1 + N) mod N.
C4_RetreatIsPredecessor ==
  [][(N >= 1 /\ updateQueue' = Append(updateQueue, "prev"))
       => /\ 0 <= PendingSlide /\ PendingSlide < N
          /\ PendingSlide' = (PendingSlide - 1 + N) % N]_vars

C4_Witness ==
  /\ N = 3 /\ hist # <<>>
  /\ LastOp.op = "prev" /\ LastOp.before = 0 /\ LastOp.after = 2
  /\ PendingSlide = 2

\* C5: for N >= 1, Advance followed by Retreat returns the index to where it
\* started, whether or not a re-render happened in between.
C5_AdvanceThenRetreat ==
  (N >= 1 /\ Len(hist) = 2 /\ hist[1].op = "next" /\ hist[2].op = "prev")
    => /\ hist[2].before = hist[1].after
       /\ hist[2].after = hist[1].before
       /\ PendingSlide = hist[1].before

C5_Witness ==
  /\ N = 3 /\ Len(hist) = 2
  /\ hist[1].op = "next" /\ hist[1].before = 2 /\ hist[1].after = 0
  /\ hist[2].op = "prev" /\ hist[2].after = 2
  /\ updateQueue = <<"prev">>

\* C6: the start index requested from the Carousel is the Current Index with
\* duration 500, and once the operations are rendered it is the index the
\* latest operation produced.
C6_ViewportFollowsIndex ==
  /\ carouselOpts.duration = 500
  /\ carouselOpts.startIndex = currentSlide
  /\ (hist # <<>> /\ updateQueue = <<>>) => carouselOpts.startIndex = LastOp.after

C6_Witness ==
  /\ N = 3 /\ Len(hist) = 2 /\ updateQueue = <<>>
  /\ LastOp.op = "next" /\ LastOp.after = 2
  /\ carouselOpts.startIndex = 2

\* C7: every selection of card k pushes exactly one path, the literal
\* "/store/agent/" + creator_k + "/" + slug_k, whatever the Current Index.
C7_CardClickPushesPath ==
  /\ Len(routerPushes) = Len(cardClicks)
  /\ \A j \in 1..Len(cardClicks) :
       routerPushes[j] = "/store/agent/" \o featuredAgents[cardClicks[j]].creator
                           \o "/" \o featuredAgents[cardClicks[j]].slug

C7_Witness ==
  /\ N = 3 /\ currentSlide = 2 /\ cardClicks = <<3, 2>>
  /\ routerPushes = <<"/store/agent/DataTech/agent-3", "/store/agent/WordCraft AI/agent-2">>

\* C8: the rating cell is the em-dash exactly when the rating is absent, the
\* runs cell is the em-dash exactly when the run count is absent, and a present
\* rating (0 included) is rendered as its one-decimal number with the star.
C8_DashIffAbsent ==
  rowCells.mounted =>
    /\ (rowCells.rating.text = EmDash) <=> ~rowProps.rating.defined
    /\ (rowCells.runs = EmDash) <=> ~rowProps.runs.defined
    /\ rowProps.rating.defined =>
         rowCells.rating = [text |-> toFixed1(rowProps.rating.val), star |-> TRUE]

\* C9: for N >= 1 the indicator strip has exactly N marks, exactly one of them
\* elongated, and that one is at position Current Index.
C9_OneActiveIndicator ==
  N >= 1 => /\ Len(indicators) = N
            /\ Cardinality({j \in 1..Len(indicators) : indicators[j]}) = 1
            /\ currentSlide + 1 \in 1..Len(indicators)
            /\ indicators[currentSlide + 1]

C9_Witness ==
  /\ N = 3 /\ hist # <<>> /\ currentSlide = 2
  /\ indicators = <<FALSE, FALSE, TRUE>>

\* C10: for N >= 1, with a Advance and r Retreat updates queued in any order
\* since the last render at index i, the resulting index is (i + a - r) mod N.
C10_NoLostClick ==
  N >= 1 =>
    PendingSlide =
      (currentSlide + Count(updateQueue, "next") - Count(updateQueue, "prev")) % N

C10_Witness ==
  /\ N = 3 /\ currentSlide = 1
  /\ updateQueue = <<"next", "next", "prev">>
  /\ PendingSlide = 2

====
